---------------------------- MODULE Spec2Model ----------------------------
(***************************************************************************)
(* Model of hyperdiv/frame.py: the execution frames of a Hyperdiv app.     *)
(*                                                                         *)
(* Part 1 (specification Spec) is the frame protocol: the context variable *)
(* Frame._current_frame, Frame.__enter__, Frame.__exit__ and               *)
(* Frame.current, run by two execution contexts.                           *)
(*                                                                         *)
(* Part 2 (specifications SpecState and SpecDirty) is the state access of  *)
(* the frame classes: get_state, update_state, reset_state and the other   *)
(* methods of StateAccessFrame and its subclasses, and the dirty checking  *)
(* of AppRunnerFrame.                                                      *)
(***************************************************************************)
EXTENDS Integers, Sequences, FiniteSets, TLC

\* ------------------------------------------------------------------------
\* Bounds of the model

\* Frame objects constructed in one behaviour of Spec.
MaxFrames == 2

\* Property values are 0..MaxVal; 0 is the default value of every property.
MaxVal == 1

\* ------------------------------------------------------------------------
\* Part 1: the frame protocol, and the variables of both parts

VARIABLES
    ftype,      \* frame object -> its class ("unborn" before construction)
    status,     \* frame object -> "unborn" | "new" | "entered" | "exited"
    token,      \* frame object -> self._current_frame_token
    slot,       \* execution context -> value of Frame._current_frame there
    withStack,  \* execution context -> the `with` brackets open in it
    exc,        \* execution context -> whether an exception propagates in it
    last        \* the last call made, its arguments and its outcome

ctxVars == <<ftype, status, token, slot, withStack, exc, last>>

\* The state that part 2 adds.
VARIABLES
    kind,                  \* class of the frame the main context runs in
    prev_frame_mutations,  \* AppRunnerFrame.prev_frame_mutations
    deps,                  \* AppRunnerFrame.deps
    mutations,             \* AppRunnerFrame.mutations, UIUpdatesFrame.mutations
    event_mutations,       \* UIUpdatesFrame.event_mutations
    keys,                  \* app_runner.state: the keys it holds
    store,                 \* app_runner.state: (key, prop_name) -> value
    written,               \* the pairs whose stored value a call of
                           \* update_state or reset_state on the main frame
                           \* has changed since the frame was constructed
    op                     \* the last method call, its arguments and outcome

stateVars ==
    <<kind, prev_frame_mutations, deps, mutations, event_mutations, keys,
      store, written, op>>

vars == <<ctxVars, stateVars>>

\* The execution contexts: the main run and a background task.
Ctx == {"main", "task"}

FrameIds == 1..MaxFrames

\* ContextVar.get(None) on a variable that was never set, and Token.MISSING:
\* no frame object.
None == 0

\* The value of self._current_frame_token before __enter__ has set it.
NoToken == [ctx |-> "-", old |-> None, used |-> TRUE]

\* The record of a call: who made it, on what, and how it ended.
Call(c, what, cls, f, saved, raised, err) ==
    [ctx |-> c, op |-> what, cls |-> cls, frame |-> f, saved |-> saved,
     raised |-> raised, err |-> err]

\* The classes of frame.py.
Classes ==
    {"Frame", "StateAccessFrame", "AppRunnerFrame", "TaskFrame",
     "UIUpdatesFrame", "ResetUIEventsFrame", "RenderFrame"}

\* Frame is a base class that is not instantiated.
ConcreteClasses == Classes \ {"Frame"}

\* The base class each class statement names.
Parent(cls) ==
    CASE cls = "Frame" -> "object"
      [] cls = "StateAccessFrame" -> "Frame"
      [] OTHER -> "StateAccessFrame"

\* The classes an object of class cls is an instance of.
Mro(cls) ==
    IF cls = "Frame" THEN {"Frame"}
    ELSE IF cls = "StateAccessFrame" THEN {"StateAccessFrame", "Frame"}
    ELSE {cls, Parent(cls), Parent(Parent(cls))}

\* isinstance(frame, cls) for a frame of class t.
IsInstance(t, cls) == cls \in Mro(t)

\* A single cell shared by every context, in place of a context variable.
VarCtxShared(c) == "main"

\* The Context in which context c looks a ContextVar up: its own.
VarCtx(c) == c

\* Frame._current_frame.get(None) in context c.
VarGet(c) == slot[VarCtx(c)]

NoCall == Call("-", "init", "-", None, None, FALSE, "none")

\* The frame objects not yet constructed; the next one constructed is the
\* least of them.
Unborn == {f \in FrameIds : status[f] = "unborn"}

NextId == CHOOSE f \in Unborn : \A g \in Unborn : f <= g

\* Frame.__enter__ run by context c on frame f: the token of the set() call
\* is kept on the frame object, and f becomes the current frame of c.
EnterFrame(c, f) ==
    /\ token' = [token EXCEPT
                   ![f] = [ctx |-> VarCtx(c), old |-> VarGet(c), used |-> FALSE]]
    /\ slot' = [slot EXCEPT ![VarCtx(c)] = f]
    /\ status' = [status EXCEPT ![f] = "entered"]
    /\ withStack' = [withStack EXCEPT
                       ![c] = Append(@, [frame |-> f, saved |-> slot[c]])]
    /\ UNCHANGED exc

\* `with cls(app_runner) as frame:` in context c: Frame.__init__ through the
\* subclass, then Frame.__enter__ on the new object.
With(c, cls) ==
    /\ ~exc[c]
    /\ Unborn /= {}
    /\ ftype' = [ftype EXCEPT ![NextId] = cls]
    /\ EnterFrame(c, NextId)
    /\ last' = Call(c, "enter", cls, NextId, None, FALSE, "none")
    /\ UNCHANGED stateVars

\* A task_frame() that also enters the frame it makes.
TaskFrameNewEntered(c) ==
    /\ ~exc[c]
    /\ Unborn /= {}
    /\ VarGet(c) /= None
    /\ IsInstance(ftype[VarGet(c)], "AppRunnerFrame")
    /\ ftype' = [ftype EXCEPT ![NextId] = "TaskFrame"]
    /\ EnterFrame(c, NextId)
    /\ last' = Call(c, "task_frame", "TaskFrame", NextId, None, FALSE, "none")
    /\ UNCHANGED stateVars

\* AppRunnerFrame.task_frame, called in context c on the frame that
\* AppRunnerFrame.current() returns: a new TaskFrame, not entered.
TaskFrameNew(c) ==
    /\ ~exc[c]
    /\ Unborn /= {}
    /\ VarGet(c) /= None
    /\ IsInstance(ftype[VarGet(c)], "AppRunnerFrame")
    /\ ftype' = [ftype EXCEPT ![NextId] = "TaskFrame"]
    /\ status' = [status EXCEPT ![NextId] = "new"]
    /\ last' = Call(c, "task_frame", "TaskFrame", NextId, None, FALSE, "none")
    /\ UNCHANGED <<token, slot, withStack, exc>>
    /\ UNCHANGED stateVars

\* `with task_frame:` in context c, on a TaskFrame that task_frame() made.
WithTask(c, f) ==
    /\ ~exc[c]
    /\ status[f] = "new"
    /\ EnterFrame(c, f)
    /\ last' = Call(c, "enter", ftype[f], f, None, FALSE, "none")
    /\ UNCHANGED ftype
    /\ UNCHANGED stateVars

\* ContextVar.reset(tok) in context c: the error it raises, if any.
ResetError(c, tok) ==
    IF tok.used THEN "RuntimeError"
    ELSE IF tok.ctx /= VarCtx(c) THEN "ValueError"
    ELSE "none"

\* A reset that clears the variable instead of restoring the token's value.
ResetVarClear(c, tok) ==
    IF ResetError(c, tok) = "none"
    THEN [slot EXCEPT ![VarCtx(c)] = None]
    ELSE slot

\* A reset that leaves the variable as it is.
ResetVarKeep(c, tok) == slot

\* ContextVar.reset(tok) in context c: the variable's values afterwards.
ResetVar(c, tok) ==
    IF ResetError(c, tok) = "none"
    THEN [slot EXCEPT ![VarCtx(c)] = tok.old]
    ELSE slot

\* Frame.__exit__: context c leaves its innermost `with` bracket, either
\* normally or with the exception that propagates in c.  __exit__ returns
\* None, so the exception goes on propagating.
Exit(c) ==
    /\ withStack[c] /= <<>>
    /\ LET top == withStack[c][Len(withStack[c])]
           f == top.frame
           err == ResetError(c, token[f])
       IN  /\ slot' = ResetVar(c, token[f])
           /\ token' = [token EXCEPT
                          ![f].used = IF err = "none" THEN TRUE ELSE @]
           /\ status' = [status EXCEPT ![f] = "exited"]
           /\ withStack' = [withStack EXCEPT ![c] = SubSeq(@, 1, Len(@) - 1)]
           /\ exc' = [exc EXCEPT ![c] = @ \/ err /= "none"]
           /\ last' = Call(c, "exit", ftype[f], f, top.saved, exc[c], err)
           /\ UNCHANGED ftype
    /\ UNCHANGED stateVars

\* A lookup that compares the frame's class with cls instead of isinstance.
CurrentResultExactClass(c, cls) ==
    LET frame == VarGet(c)
    IN  IF frame = None THEN [err |-> "NoActiveFrame", frame |-> None]
        ELSE IF ftype[frame] /= cls
        THEN [err |-> "WrongFrame", frame |-> None]
        ELSE [err |-> "none", frame |-> frame]

\* A lookup without the test for an unset variable.
CurrentResultNoEmptyTest(c, cls) ==
    LET frame == VarGet(c)
    IN  IF frame = None \/ ~IsInstance(ftype[frame], cls)
        THEN [err |-> "WrongFrame", frame |-> None]
        ELSE [err |-> "none", frame |-> frame]

\* Frame.current: the error raised or the frame returned by cls.current()
\* in context c.
CurrentResult(c, cls) ==
    LET frame == VarGet(c)
    IN  IF frame = None THEN [err |-> "NoActiveFrame", frame |-> None]
        ELSE IF ~IsInstance(ftype[frame], cls)
        THEN [err |-> "WrongFrame", frame |-> None]
        ELSE [err |-> "none", frame |-> frame]

\* cls.current() called in context c; a failure propagates as an exception.
Current(c, cls) ==
    /\ ~exc[c]
    /\ LET res == CurrentResult(c, cls)
       IN  /\ last' = Call(c, "current", cls, res.frame, None, FALSE, res.err)
           /\ exc' = [exc EXCEPT ![c] = res.err /= "none"]
    /\ UNCHANGED <<ftype, status, token, slot, withStack>>
    /\ UNCHANGED stateVars

\* The bracketed code of context c raises.
Raise(c) ==
    /\ ~exc[c]
    /\ withStack[c] /= <<>>
    /\ exc' = [exc EXCEPT ![c] = TRUE]
    /\ last' = Call(c, "raise", "-", None, None, TRUE, "Exception")
    /\ UNCHANGED <<ftype, status, token, slot, withStack>>
    /\ UNCHANGED stateVars

\* A handler of context c catches the exception that propagates in it.
Catch(c) ==
    /\ exc[c]
    /\ exc' = [exc EXCEPT ![c] = FALSE]
    /\ last' = Call(c, "catch", "-", None, None, FALSE, "none")
    /\ UNCHANGED <<ftype, status, token, slot, withStack>>
    /\ UNCHANGED stateVars

\* A frame is entered once: by the `with` statement that constructs it, or,
\* a TaskFrame, by the context the task is scheduled on.
NextCtx ==
    \E c \in Ctx :
        \/ \E cls \in ConcreteClasses \ {"TaskFrame"} : With(c, cls)
        \/ TaskFrameNew(c)
        \/ \E f \in FrameIds : WithTask(c, f)
        \/ Exit(c)
        \/ \E cls \in Classes : Current(c, cls)
        \/ Raise(c)
        \/ Catch(c)

\* ------------------------------------------------------------------------
\* Part 2: state access through a frame

Values == 0..MaxVal

Default == 0

Keys == {"k1", "k2"}

\* The properties of the components: a plain one and an event property on
\* k1, a backend-immutable one on k2.
Pairs == {<<"k1", "value">>, <<"k1", "clicked">>, <<"k2", "ro">>}

PairsOf(key) == {pr \in Pairs : pr[1] = key}

\* prop.is_event_prop
IsEventProp(pr) == pr = <<"k1", "clicked">>

\* prop.backend_immutable
BackendImmutable(pr) == pr = <<"k2", "ro">>

NoPair == <<"-", "-">>

NoVal == 0 - 1

Bool(b) == IF b THEN "True" ELSE "False"

\* What a method call does: the exception it raises ("none": it returns),
\* what it returns, the state it leaves, and the calls it makes on the
\* runner's collaborators.
Eff ==
    [exc |-> "none", ret |-> "None", retval |-> NoVal, retset |-> {},
     store |-> store, keys |-> keys, mutations |-> mutations,
     event_mutations |-> event_mutations, deps |-> deps,
     prev_frame_mutations |-> prev_frame_mutations,
     call |-> "none", pushed |-> NoPair, enqueued |-> <<>>,
     triggered |-> NoPair]

Raises(e) == [Eff EXCEPT !.exc = e]

\* ---- app_runner.state, the state store

\* state.get_prop(key, prop_name) finds the property.
Exists(pr) == pr[1] \in keys

\* state._get(key, prop_name)
State_get(pr) ==
    IF ~Exists(pr) THEN Raises("UnknownProperty")
    ELSE [Eff EXCEPT !.retval = store[pr], !.call = "_get"]

\* state._update(key, prop_name, value): whether the value changed.
State_update(pr, value) ==
    [Eff EXCEPT !.store = [store EXCEPT ![pr] = value],
                !.ret = Bool(store[pr] /= value),
                !.call = "_update"]

\* state._reset(key, prop_name): whether the value changed.
State_reset(pr) ==
    [Eff EXCEPT !.store = [store EXCEPT ![pr] = Default],
                !.ret = Bool(store[pr] /= Default),
                !.call = "_reset"]

\* state.init_props(key, props_with_values): a key the store does not hold
\* yet is added with the given value for its properties.
State_init_props(key, value) ==
    IF key \in keys THEN [Eff EXCEPT !.call = "init_props"]
    ELSE [Eff EXCEPT
            !.keys = keys \cup {key},
            !.store = [pr \in Pairs |->
                         IF pr[1] = key THEN value ELSE store[pr]],
            !.call = "init_props"]

\* state.has_prop(key, prop_name)
State_has_prop(pr) ==
    [Eff EXCEPT !.ret = Bool(Exists(pr)), !.call = "has_prop"]

\* state.get_props(key)
State_get_props(key) ==
    IF key \notin keys THEN Raises("UnknownProperty")
    ELSE [Eff EXCEPT !.retset = PairsOf(key), !.call = "get_props"]

\* ---- StateAccessFrame

SAF_get_state(pr) == State_get(pr)

\* An update that guards backend-immutable properties only.
SAF_update_state_NoEventGuard(pr, value) ==
    IF ~Exists(pr) THEN Raises("UnknownProperty")
    ELSE IF BackendImmutable(pr) THEN Raises("IllegalMutation")
    ELSE State_update(pr, value)

SAF_update_state(pr, value) ==
    IF ~Exists(pr) THEN Raises("UnknownProperty")
    ELSE IF IsEventProp(pr) \/ BackendImmutable(pr)
    THEN Raises("IllegalMutation")
    ELSE State_update(pr, value)

\* A reset without the guard for event properties.
SAF_reset_state_NoGuard(pr) ==
    IF ~Exists(pr) THEN Raises("UnknownProperty")
    ELSE State_reset(pr)

SAF_reset_state(pr) ==
    IF ~Exists(pr) THEN Raises("UnknownProperty")
    ELSE IF IsEventProp(pr) THEN Raises("IllegalReset")
    ELSE State_reset(pr)

SAF_init_props(key, value) == State_init_props(key, value)

SAF_has_prop(pr) == State_has_prop(pr)

SAF_get_props(key) == State_get_props(key)

\* app_runner.trigger_event(state.get_prop(key, prop_name), value)
SAF_trigger_event(pr) ==
    IF ~Exists(pr) THEN Raises("UnknownProperty")
    ELSE [Eff EXCEPT !.triggered = pr]

\* ---- AppRunnerFrame

\* AppRunnerFrame.__init__: prev_frame_mutations if prev_frame_mutations
\* else set().  arg.given is FALSE for None.
ARF_init(arg) == IF arg.given /\ arg.set /= {} THEN arg.set ELSE {}

\* A read that records no dependency.
ARF_get_state_NoDeps(pr) == SAF_get_state(pr)

ARF_get_state(pr) ==
    LET r == SAF_get_state(pr)
    IN  IF r.exc /= "none" THEN r
        ELSE [r EXCEPT !.deps = deps \cup {pr}]

\* Bookkeeping that records the pair whether or not the call changed it.
ARF_track_Always(r, pr) ==
    IF r.exc /= "none" THEN r
    ELSE [r EXCEPT !.mutations = mutations \cup {pr}, !.ret = "None"]

\* Bookkeeping that records the changed pair in the set of the previous
\* run.
ARF_track_IntoPrev(r, pr) ==
    IF r.exc /= "none" THEN r
    ELSE [r EXCEPT
            !.prev_frame_mutations =
                IF r.ret = "True" THEN prev_frame_mutations \cup {pr}
                ELSE prev_frame_mutations,
            !.mutations = IF r.ret = "True" THEN mutations \cup {pr}
                          ELSE mutations,
            !.ret = "None"]

\* Bookkeeping that keeps the latest changed pair only.
ARF_track_Replace(r, pr) ==
    IF r.exc /= "none" THEN r
    ELSE [r EXCEPT
            !.mutations = IF r.ret = "True" THEN {pr} ELSE mutations,
            !.ret = "None"]

\* The bookkeeping of AppRunnerFrame.update_state and reset_state after the
\* call r of the base class: the method itself returns None.
ARF_track(r, pr) ==
    IF r.exc /= "none" THEN r
    ELSE [r EXCEPT
            !.mutations = IF r.ret = "True" THEN mutations \cup {pr}
                          ELSE mutations,
            !.ret = "None"]

ARF_update_state(pr, value) == ARF_track(SAF_update_state(pr, value), pr)

ARF_reset_state(pr) == ARF_track(SAF_reset_state(pr), pr)

\* A filter that looks at the run's own mutations only.
ARF_filter_dirty_deps_OwnOnly(d) == mutations \cap d

ARF_filter_dirty_deps(d) ==
    (mutations \cup prev_frame_mutations) \cap d

ARF_deps_are_dirty(d) == Cardinality(ARF_filter_dirty_deps(d)) > 0

\* ---- TaskFrame

\* app_runner.enqueue_task_mutations([(key, prop_name)]) after the call r of
\* the base class, when it reports a change.
TF_track_EnqueueAlways(r, pr) ==
    IF r.exc /= "none" THEN r
    ELSE [r EXCEPT !.enqueued = <<pr>>, !.ret = "None"]

TF_track(r, pr) ==
    IF r.exc /= "none" THEN r
    ELSE [r EXCEPT
            !.enqueued = IF r.ret = "True" THEN <<pr>> ELSE <<>>,
            !.ret = "None"]

TF_update_state(pr, value) == TF_track(SAF_update_state(pr, value), pr)

TF_reset_state(pr) == TF_track(SAF_reset_state(pr), pr)

\* ---- UIUpdatesFrame

\* Bookkeeping that counts every changed property as an event.
UIF_track_EventAll(r, pr) ==
    IF r.ret /= "True" THEN [r EXCEPT !.ret = "None"]
    ELSE [r EXCEPT
            !.mutations = mutations \cup {pr},
            !.event_mutations = event_mutations \cup {pr},
            !.pushed = pr,
            !.ret = "None"]

\* Bookkeeping that pushes the property whether or not the value changed.
UIF_track_PushAlways(r, pr) ==
    IF r.ret /= "True" THEN [r EXCEPT !.pushed = pr, !.ret = "None"]
    ELSE [r EXCEPT
            !.mutations = mutations \cup {pr},
            !.event_mutations = IF IsEventProp(pr)
                                THEN event_mutations \cup {pr}
                                ELSE event_mutations,
            !.pushed = pr,
            !.ret = "None"]

\* The bookkeeping of UIUpdatesFrame.update_state and reset_state after the
\* call r of the state store.
UIF_track(r, pr) ==
    IF r.ret /= "True" THEN [r EXCEPT !.ret = "None"]
    ELSE [r EXCEPT
            !.mutations = mutations \cup {pr},
            !.event_mutations = IF IsEventProp(pr)
                                THEN event_mutations \cup {pr}
                                ELSE event_mutations,
            !.pushed = pr,
            !.ret = "None"]

\* An update that lets the error of an unknown key escape.
UIF_update_state_Strict(pr, value) ==
    IF ~Exists(pr) THEN Raises("UnknownProperty")
    ELSE UIF_track(State_update(pr, value), pr)

\* A key the store does not hold is logged and the update dropped.
UIF_update_state(pr, value) ==
    IF ~Exists(pr) THEN Eff
    ELSE UIF_track(State_update(pr, value), pr)

UIF_reset_state(pr) ==
    IF ~Exists(pr) THEN Raises("UnknownProperty")
    ELSE UIF_track(State_reset(pr), pr)

UIF_trigger_event(pr) == Raises("AccessDenied")

\* ---- ResetUIEventsFrame

RUEF_denied == Raises("AccessDenied")

\* A reset without the test that the property is an event property.
RUEF_reset_state_AnyProp(pr) ==
    IF ~Exists(pr) THEN Raises("UnknownProperty")
    ELSE [State_reset(pr) EXCEPT !.ret = "None"]

RUEF_reset_state(pr) ==
    IF ~Exists(pr) THEN Raises("UnknownProperty")
    ELSE IF ~IsEventProp(pr) THEN Raises("IllegalReset")
    ELSE [State_reset(pr) EXCEPT !.ret = "None"]

\* ---- RenderFrame

RF_denied == Raises("AccessDenied")

\* RenderFrame.prop_changed(prop): the answer b of
\* app_runner.ui_prop_state.prop_changed(prop), passed on.
RF_prop_changed(pr, b) ==
    [Eff EXCEPT !.ret = Bool(b), !.call = "prop_changed"]

\* ---- The method that a call on a frame of class cls runs

get_state_of(cls, pr) ==
    CASE cls = "AppRunnerFrame" -> ARF_get_state(pr)
      [] cls = "ResetUIEventsFrame" -> RUEF_denied
      [] cls = "RenderFrame" -> RF_denied
      [] OTHER -> SAF_get_state(pr)

\* A RenderFrame without its override of update_state.
update_state_of_RenderInherits(cls, pr, value) ==
    CASE cls = "AppRunnerFrame" -> ARF_update_state(pr, value)
      [] cls = "TaskFrame" -> TF_update_state(pr, value)
      [] cls = "UIUpdatesFrame" -> UIF_update_state(pr, value)
      [] cls = "ResetUIEventsFrame" -> RUEF_denied
      [] OTHER -> SAF_update_state(pr, value)

update_state_of(cls, pr, value) ==
    CASE cls = "AppRunnerFrame" -> ARF_update_state(pr, value)
      [] cls = "TaskFrame" -> TF_update_state(pr, value)
      [] cls = "UIUpdatesFrame" -> UIF_update_state(pr, value)
      [] cls = "ResetUIEventsFrame" -> RUEF_denied
      [] cls = "RenderFrame" -> RF_denied
      [] OTHER -> SAF_update_state(pr, value)

reset_state_of(cls, pr) ==
    CASE cls = "AppRunnerFrame" -> ARF_reset_state(pr)
      [] cls = "TaskFrame" -> TF_reset_state(pr)
      [] cls = "UIUpdatesFrame" -> UIF_reset_state(pr)
      [] cls = "ResetUIEventsFrame" -> RUEF_reset_state(pr)
      [] cls = "RenderFrame" -> RF_denied
      [] OTHER -> SAF_reset_state(pr)

init_props_of(cls, key, value) ==
    CASE cls = "ResetUIEventsFrame" -> RUEF_denied
      [] OTHER -> SAF_init_props(key, value)

has_prop_of(cls, pr) ==
    CASE cls = "ResetUIEventsFrame" -> RUEF_denied
      [] OTHER -> SAF_has_prop(pr)

get_props_of(cls, key) ==
    CASE cls = "ResetUIEventsFrame" -> RUEF_denied
      [] OTHER -> SAF_get_props(key)

trigger_event_of(cls, pr) ==
    CASE cls = "UIUpdatesFrame" -> UIF_trigger_event(pr)
      [] cls = "ResetUIEventsFrame" -> RUEF_denied
      [] cls = "RenderFrame" -> RF_denied
      [] OTHER -> SAF_trigger_event(pr)

\* ---- The calls

\* The record of a method call on a frame of class cls.
OpRec(cls, name, pr, e, argdeps) ==
    [cls |-> cls, name |-> name, pair |-> pr, argdeps |-> argdeps,
     exc |-> e.exc, ret |-> e.ret, retval |-> e.retval,
     retset |-> e.retset,
     changed |-> e.store /= store \/ e.keys /= keys,
     call |-> e.call, pushed |-> e.pushed, enqueued |-> e.enqueued,
     triggered |-> e.triggered]

\* The frames a call can be made on: the frame of the main context, and the
\* TaskFrame of a background task, which runs beside every main frame.
Callable == {kind, "TaskFrame"}

\* The call `name` on a frame of class cls, with effect e, on property pr.
\* The sets of the main frame are those the method leaves: a TaskFrame has
\* none of its own.
Do(cls, name, pr, e) ==
    /\ store' = e.store
    /\ keys' = e.keys
    /\ mutations' = e.mutations
    /\ event_mutations' = e.event_mutations
    /\ deps' = e.deps
    /\ prev_frame_mutations' = e.prev_frame_mutations
    /\ written' = IF /\ cls = kind
                     /\ name \in {"update_state", "reset_state"}
                     /\ e.store[pr] /= store[pr]
                  THEN written \cup {pr}
                  ELSE written
    /\ op' = OpRec(cls, name, pr, e, {})
    /\ UNCHANGED kind
    /\ UNCHANGED ctxVars

get_state(cls, pr) == Do(cls, "get_state", pr, get_state_of(cls, pr))

update_state(cls, pr, value) ==
    Do(cls, "update_state", pr, update_state_of(cls, pr, value))

reset_state(cls, pr) == Do(cls, "reset_state", pr, reset_state_of(cls, pr))

init_props(cls, key, value) ==
    Do(cls, "init_props", CHOOSE pr \in PairsOf(key) : TRUE,
       init_props_of(cls, key, value))

has_prop(cls, pr) == Do(cls, "has_prop", pr, has_prop_of(cls, pr))

get_props(cls, key) ==
    Do(cls, "get_props", CHOOSE pr \in PairsOf(key) : TRUE,
       get_props_of(cls, key))

trigger_event(cls, pr) ==
    Do(cls, "trigger_event", pr, trigger_event_of(cls, pr))

\* RenderFrame.prop_changed(prop), the tracker answering b.
prop_changed(pr, b) ==
    /\ kind = "RenderFrame"
    /\ Do(kind, "prop_changed", pr, RF_prop_changed(pr, b))

\* AppRunnerFrame.filter_dirty_deps(d)
filter_dirty_deps(d) ==
    /\ kind = "AppRunnerFrame"
    /\ op' = OpRec(kind, "filter_dirty_deps", NoPair,
                   [Eff EXCEPT !.retset = ARF_filter_dirty_deps(d)], d)
    /\ UNCHANGED <<kind, prev_frame_mutations, deps, mutations,
                   event_mutations, keys, store, written>>
    /\ UNCHANGED ctxVars

\* AppRunnerFrame.deps_are_dirty(d)
deps_are_dirty(d) ==
    /\ kind = "AppRunnerFrame"
    /\ op' = OpRec(kind, "deps_are_dirty", NoPair,
                   [Eff EXCEPT !.ret = Bool(ARF_deps_are_dirty(d))], d)
    /\ UNCHANGED <<kind, prev_frame_mutations, deps, mutations,
                   event_mutations, keys, store, written>>
    /\ UNCHANGED ctxVars

\* The main context leaves its frame and constructs the frame of its next
\* phase: cls(app_runner), or AppRunnerFrame(app_runner, arg).
NewFrame(cls, arg) ==
    /\ kind' = cls
    /\ prev_frame_mutations' =
         IF cls = "AppRunnerFrame" THEN ARF_init(arg) ELSE {}
    /\ deps' = {}
    /\ mutations' = {}
    /\ event_mutations' = {}
    /\ written' = {}
    /\ op' = OpRec(cls, "__init__", NoPair, Eff,
                   IF cls = "AppRunnerFrame" THEN arg.set ELSE {})
    /\ UNCHANGED <<keys, store>>
    /\ UNCHANGED ctxVars

NoArg == [given |-> FALSE, set |-> {}]

MainClasses == ConcreteClasses \ {"TaskFrame"}

\* Any call on the main frame or on the task's frame; the main context goes
\* from phase to phase, an AppRunnerFrame getting no prev_frame_mutations.
NextState ==
    \/ \E cls \in MainClasses : NewFrame(cls, NoArg)
    \/ \E cls \in Callable, pr \in Pairs : get_state(cls, pr)
    \/ \E cls \in Callable, pr \in Pairs, v \in Values :
          update_state(cls, pr, v)
    \/ \E cls \in Callable, pr \in Pairs : reset_state(cls, pr)
    \/ \E cls \in Callable, key \in Keys, v \in Values :
          init_props(cls, key, v)
    \/ \E cls \in Callable, pr \in Pairs : has_prop(cls, pr)
    \/ \E cls \in Callable, key \in Keys : get_props(cls, key)
    \/ \E cls \in Callable, pr \in Pairs : trigger_event(cls, pr)
    \/ \E pr \in Pairs, b \in BOOLEAN : prop_changed(pr, b)

\* The application run: an AppRunnerFrame constructed with the mutations of
\* the preceding update cycle, the run's writes, and its dirty checks.
NextDirty ==
    \/ \E S \in SUBSET Pairs :
          NewFrame("AppRunnerFrame", [given |-> TRUE, set |-> S])
    \/ NewFrame("AppRunnerFrame", NoArg)
    \/ \E pr \in Pairs, v \in Values : update_state(kind, pr, v)
    \/ \E pr \in Pairs : reset_state(kind, pr)
    \/ \E key \in Keys, v \in Values : init_props(kind, key, v)
    \/ \E d \in SUBSET Pairs : filter_dirty_deps(d)
    \/ \E d \in SUBSET Pairs : deps_are_dirty(d)

\* ------------------------------------------------------------------------
\* The specifications

\* No frame object constructed, no context variable set; the store holds
\* k1; the main context runs in a StateAccessFrame.
Init ==
    /\ ftype = [f \in FrameIds |-> "unborn"]
    /\ status = [f \in FrameIds |-> "unborn"]
    /\ token = [f \in FrameIds |-> NoToken]
    /\ slot = [c \in Ctx |-> None]
    /\ withStack = [c \in Ctx |-> <<>>]
    /\ exc = [c \in Ctx |-> FALSE]
    /\ last = NoCall
    /\ kind = "StateAccessFrame"
    /\ prev_frame_mutations = {}
    /\ deps = {}
    /\ mutations = {}
    /\ event_mutations = {}
    /\ keys = {"k1"}
    /\ store = [pr \in Pairs |-> Default]
    /\ written = {}
    /\ op = OpRec("StateAccessFrame", "__init__", NoPair, Eff, {})

Spec == Init /\ [][NextCtx]_vars

SpecState == Init /\ [][NextState]_vars

SpecDirty == Init /\ [][NextDirty]_vars

\* ------------------------------------------------------------------------
\* Properties of the frame protocol

\* The `with` brackets open in the context of the last call, innermost last.
LastStack == withStack[last.ctx]

Depth == Len(LastStack)

\* The frame of the innermost open bracket and of the one around it.
Inner == LastStack[Depth].frame

Outer == LastStack[Depth - 1].frame

AfterCurrent == last.op = "current"

Returned(f) == last.err = "none" /\ last.frame = f

\* C1 as stated: with frame A entered and then frame B, current() for B's
\* class returns B and current() for A's class fails with the wrong-frame
\* error; with A alone entered, current() for A's class returns A.
C1_ExclusiveAsStated ==
    AfterCurrent =>
        /\ Depth >= 1 /\ last.cls = ftype[Inner] => Returned(Inner)
        /\ Depth >= 2 /\ last.cls = ftype[Outer] => last.err = "WrongFrame"

\* C1 amended: with frame A entered and then frame B, current() for B's
\* class returns B; current() for A's class fails with the wrong-frame
\* error when B's class is neither A's class nor a subclass of it, and
\* returns B otherwise; once B has exited, current() for A's class returns A.
C1_Exclusive ==
    AfterCurrent =>
        /\ Depth >= 1 /\ last.cls = ftype[Inner] => Returned(Inner)
        /\ Depth >= 2 /\ last.cls = ftype[Outer] =>
              IF IsInstance(ftype[Inner], ftype[Outer])
              THEN Returned(Inner)
              ELSE last.err = "WrongFrame"

\* A's bracket is open, B's bracket inside it has ended, and current() for
\* A's class has just returned A; before that B's class was not A's.
C1_Witness ==
    /\ AfterCurrent
    /\ Depth = 1
    /\ last.cls = ftype[Inner]
    /\ Returned(Inner)
    /\ \E b \in FrameIds :
          /\ status[b] = "exited"
          /\ token[b].old = Inner
          /\ ~IsInstance(ftype[b], ftype[Inner])

\* C2: each exit, normal or raising, puts back the value the slot held just
\* before the matching enter, without error, and uses its token up.
C2_Restore ==
    last.op = "exit" =>
        /\ last.err = "none"
        /\ slot[last.ctx] = last.saved
        /\ token[last.frame].used

\* An inner bracket has just been left by an exception, with the frame of
\* the outer bracket put back.
C2_Witness ==
    /\ last.op = "exit"
    /\ last.raised
    /\ last.saved /= None
    /\ slot[last.ctx] = last.saved

\* C3: current() in a context returns only a frame whose bracket is open in
\* that context, and a step of one context leaves the current frame of
\* every other context unchanged.
C3_ContextLocal ==
    /\ [](AfterCurrent /\ last.err = "none" =>
            \E i \in 1..Depth : LastStack[i].frame = last.frame)
    /\ [][\A d \in Ctx : d /= last'.ctx => slot'[d] = slot[d]]_vars

\* Both contexts have a frame of their own entered, and current() in the
\* task context has just returned the task's frame.
C3_Witness ==
    /\ slot["main"] /= None
    /\ slot["task"] /= None
    /\ slot["main"] /= slot["task"]
    /\ AfterCurrent
    /\ last.ctx = "task"
    /\ Returned(slot["task"])

\* C4: the slot of a context is empty or holds a frame that was entered and
\* has not exited.
C4_NoStaleFrame ==
    \A c \in Ctx : slot[c] = None \/ status[slot[c]] = "entered"

\* A bracket has been left by an exception and the slot holds the frame of
\* the bracket around it, which is still open.
C4_Witness ==
    /\ last.op = "exit"
    /\ last.raised
    /\ status[last.frame] = "exited"
    /\ slot[last.ctx] /= None
    /\ status[slot[last.ctx]] = "entered"

\* C5: with no bracket open in the calling context, current() for any class
\* fails with the no-active-frame error and the slot stays empty.
C5_NoActiveFrame ==
    AfterCurrent /\ Depth = 0 =>
        last.err = "NoActiveFrame" /\ slot[last.ctx] = None

\* Every frame the calling context had entered has exited, and current()
\* has just failed with the no-active-frame error.
C5_Witness ==
    /\ AfterCurrent
    /\ Depth = 0
    /\ last.err = "NoActiveFrame"
    /\ \E f \in FrameIds : status[f] = "exited" /\ token[f].ctx = last.ctx

\* ------------------------------------------------------------------------
\* Properties of state access

\* The pairs of d that the run has written or that were written just
\* before it.
DirtyIn(d) == d \cap (mutations \cup prev_frame_mutations)

\* C6: in an AppRunnerFrame filter_dirty_deps(d) is d intersected with
\* (mutations union prev_frame_mutations), and deps_are_dirty(d) is true
\* exactly when that intersection is not empty.
C6_DirtyDeps ==
    /\ op.name = "filter_dirty_deps" => op.retset = DirtyIn(op.argdeps)
    /\ op.name = "deps_are_dirty" =>
          (op.ret = "True" <=> DirtyIn(op.argdeps) /= {})
    /\ op.name = "deps_are_dirty" =>
          /\ op.argdeps \cap prev_frame_mutations /= {} => op.ret = "True"
          /\ DirtyIn(op.argdeps) = {} => op.ret = "False"

\* The run has written a property, and a dependency on another property,
\* which only the preceding update cycle changed, has just been found dirty.
C6_Witness ==
    /\ op.name = "deps_are_dirty"
    /\ op.ret = "True"
    /\ mutations /= {}
    /\ op.argdeps \cap mutations = {}
    /\ op.argdeps \subseteq prev_frame_mutations

\* C7: the mutations of an AppRunnerFrame are exactly the pairs whose stored
\* value one of its update_state or reset_state calls has changed.
C7_MutationsExact == kind = "AppRunnerFrame" => mutations = written

\* An update_state of the AppRunnerFrame has just written the value the
\* property already held, after an earlier call changed another property.
C7_Witness ==
    /\ kind = "AppRunnerFrame"
    /\ op.cls = "AppRunnerFrame"
    /\ op.name = "update_state"
    /\ op.exc = "none"
    /\ ~op.changed
    /\ op.pair \notin mutations
    /\ mutations /= {}

OnEventProp == IsEventProp(op.pair)

\* C8 as stated: update_state on an event property fails with the
\* illegal-mutation error in every frame and changes nothing; reset_state on
\* it fails with the illegal-reset error in a StateAccessFrame and succeeds
\* in a ResetUIEventsFrame.
C8_EventGuardAsStated ==
    /\ op.name = "update_state" /\ OnEventProp =>
          op.exc = "IllegalMutation" /\ ~op.changed
    /\ op.name = "reset_state" /\ OnEventProp =>
          /\ op.cls = "StateAccessFrame" => op.exc = "IllegalReset"
          /\ op.cls = "ResetUIEventsFrame" => op.exc = "none"

\* C8 amended: update_state on an event property fails with the
\* illegal-mutation error in a StateAccessFrame, an AppRunnerFrame and a
\* TaskFrame, fails with the access-denied error in a ResetUIEventsFrame and
\* a RenderFrame, changing nothing in all five, and writes the value in a
\* UIUpdatesFrame; reset_state on it fails with the illegal-reset error in a
\* StateAccessFrame and succeeds in a ResetUIEventsFrame.
C8_EventGuard ==
    /\ op.name = "update_state" /\ OnEventProp =>
          /\ op.cls \in {"StateAccessFrame", "AppRunnerFrame", "TaskFrame"}
                => op.exc = "IllegalMutation" /\ ~op.changed
          /\ op.cls \in {"ResetUIEventsFrame", "RenderFrame"}
                => op.exc = "AccessDenied" /\ ~op.changed
          /\ op.cls = "UIUpdatesFrame"
                => op.exc = "none" /\ op.call = "_update"
    /\ op.name = "reset_state" /\ OnEventProp =>
          /\ op.cls = "StateAccessFrame"
                => op.exc = "IllegalReset" /\ ~op.changed
          /\ op.cls = "ResetUIEventsFrame"
                => op.exc = "none" /\ store[op.pair] = Default

\* update_state on the event property has just been refused in a TaskFrame
\* while the property holds a value that a UIUpdatesFrame wrote.
C8_Witness ==
    /\ op.cls = "TaskFrame"
    /\ op.name = "update_state"
    /\ OnEventProp
    /\ op.exc = "IllegalMutation"
    /\ store[op.pair] /= Default

\* C9 as stated: reset_state on an event property reaches the store's reset
\* only in a ResetUIEventsFrame, and update_state in an AppRunnerFrame or a
\* TaskFrame never reaches the store's update for a backend-immutable
\* property.
C9_GuardedWritesAsStated ==
    /\ op.name = "reset_state" /\ OnEventProp /\ op.call = "_reset" =>
          op.cls = "ResetUIEventsFrame"
    /\ /\ op.name = "update_state"
       /\ op.cls \in {"AppRunnerFrame", "TaskFrame"}
       /\ BackendImmutable(op.pair)
       => op.call /= "_update"

\* C9 amended: reset_state on an event property reaches the store's reset
\* only in a ResetUIEventsFrame or a UIUpdatesFrame, and update_state in an
\* AppRunnerFrame or a TaskFrame never reaches the store's update for a
\* backend-immutable property.
C9_GuardedWrites ==
    /\ op.name = "reset_state" /\ OnEventProp /\ op.call = "_reset" =>
          op.cls \in {"ResetUIEventsFrame", "UIUpdatesFrame"}
    /\ /\ op.name = "update_state"
       /\ op.cls \in {"AppRunnerFrame", "TaskFrame"}
       /\ BackendImmutable(op.pair)
       => op.call /= "_update" /\ ~op.changed

\* update_state on the backend-immutable property, which the store holds,
\* has just been refused in an AppRunnerFrame.
C9_Witness ==
    /\ op.cls = "AppRunnerFrame"
    /\ op.name = "update_state"
    /\ BackendImmutable(op.pair)
    /\ Exists(op.pair)
    /\ op.exc = "IllegalMutation"

\* C10: in a ResetUIEventsFrame every method but reset_state fails and
\* leaves the store as it was; reset_state on a property that is not an
\* event property fails with the illegal-reset error and leaves its value;
\* reset_state on an event property succeeds and resets the value.
C10_ResetFrame ==
    op.cls = "ResetUIEventsFrame" /\ op.name /= "__init__" =>
        /\ op.name /= "reset_state" => op.exc /= "none" /\ ~op.changed
        /\ op.name = "reset_state" /\ ~OnEventProp /\ Exists(op.pair) =>
              op.exc = "IllegalReset" /\ ~op.changed
        /\ op.name = "reset_state" /\ OnEventProp =>
              /\ op.exc = "none"
              /\ op.call = "_reset"
              /\ store[op.pair] = Default

\* reset_state in a ResetUIEventsFrame has just been refused for a property
\* that is not an event property and holds a value other than its default.
C10_Witness ==
    /\ op.cls = "ResetUIEventsFrame"
    /\ op.name = "reset_state"
    /\ ~OnEventProp
    /\ Exists(op.pair)
    /\ op.exc = "IllegalReset"
    /\ store[op.pair] /= Default

\* The methods of StateAccessFrame that RenderFrame overrides, and those it
\* inherits.
RenderDenied == {"get_state", "update_state", "reset_state", "trigger_event"}

RenderInherited == {"init_props", "has_prop", "get_props"}

InRender == op.cls = "RenderFrame" /\ op.name /= "__init__"

Untouched == ~op.changed /\ op.pushed = NoPair

\* C11 as stated: in a RenderFrame every state method fails and leaves the
\* store and the outgoing-diff tracker as they were; only prop_changed is
\* permitted.
C11_RenderFrameAsStated ==
    InRender =>
        /\ op.name /= "prop_changed" => op.exc /= "none" /\ Untouched
        /\ op.name = "prop_changed" => op.exc = "none" /\ Untouched

\* C11 amended: in a RenderFrame get_state, update_state, reset_state and
\* trigger_event fail with the access-denied error and leave the store and
\* the outgoing-diff tracker as they were; init_props, has_prop and
\* get_props are inherited and reach the state store, without a push to the
\* tracker; prop_changed returns and changes nothing.
C11_RenderFrame ==
    InRender =>
        /\ op.name \in RenderDenied =>
              op.exc = "AccessDenied" /\ op.call = "none" /\ Untouched
        /\ op.name \in RenderInherited /\ op.exc = "none" =>
              op.call = op.name /\ op.pushed = NoPair
        /\ op.name = "prop_changed" =>
              op.exc = "none" /\ op.call = "prop_changed" /\ Untouched

\* update_state in a RenderFrame has just been refused for a property that
\* the store holds and that a StateAccessFrame could write.
C11_Witness ==
    /\ InRender
    /\ op.name = "update_state"
    /\ op.exc = "AccessDenied"
    /\ Exists(op.pair)
    /\ ~IsEventProp(op.pair)
    /\ ~BackendImmutable(op.pair)

\* The step is the call `name` on a frame of class cls.
Step(cls, name) == op'.cls = cls /\ op'.name = name

Writes == {"update_state", "reset_state"}

\* C12: in a UIUpdatesFrame update_state on a key the store does not hold
\* returns without raising and leaves mutations, event_mutations, the store
\* and the diff tracker unchanged; reset_state on such a key raises the
\* unknown-property error.
C12_MissingKey ==
    [][ /\ Step("UIUpdatesFrame", "update_state") /\ op'.pair[1] \notin keys =>
            /\ op'.exc = "none"
            /\ op'.pushed = NoPair
            /\ UNCHANGED <<mutations, event_mutations, store, keys>>
        /\ Step("UIUpdatesFrame", "reset_state") /\ op'.pair[1] \notin keys =>
            op'.exc = "UnknownProperty" ]_vars

\* An update of a missing key has just been dropped in a UIUpdatesFrame
\* that has recorded a mutation before.
C12_Witness ==
    /\ op.cls = "UIUpdatesFrame"
    /\ op.name = "update_state"
    /\ ~Exists(op.pair)
    /\ op.exc = "none"
    /\ mutations /= {}

\* C13: in a UIUpdatesFrame an update_state or reset_state call pushes the
\* property to the outgoing-diff tracker exactly when it changed the stored
\* value, and exactly then records the pair in mutations; a same-value
\* write records and pushes nothing.
C13_PushIffChanged ==
    [][ op'.cls = "UIUpdatesFrame" /\ op'.name \in Writes =>
          IF store' /= store
          THEN /\ op'.pushed = op'.pair
               /\ mutations' = mutations \cup {op'.pair}
          ELSE /\ op'.pushed = NoPair
               /\ mutations' = mutations ]_vars

\* A same-value update in a UIUpdatesFrame of a property that no earlier
\* call of the frame changed.
C13_Witness ==
    /\ op.cls = "UIUpdatesFrame"
    /\ op.name = "update_state"
    /\ Exists(op.pair)
    /\ ~op.changed
    /\ op.pushed = NoPair
    /\ mutations /= {}
    /\ op.pair \notin mutations

\* C14: in a TaskFrame an update_state or reset_state that changes the
\* stored value enqueues exactly its pair on the runner's mutation queue, a
\* call that changes nothing or is rejected enqueues nothing, and no call
\* on a TaskFrame touches the mutations or deps of the frame of the main
\* context.
C14_TaskQueue ==
    [][ op'.cls = "TaskFrame" =>
          /\ op'.name \in Writes =>
                op'.enqueued = IF store' /= store THEN <<op'.pair>> ELSE <<>>
          /\ op'.name \notin Writes => op'.enqueued = <<>>
          /\ UNCHANGED <<mutations, deps>> ]_vars

\* A task has just changed a property beside an AppRunnerFrame that has
\* mutations and deps of its own: the pair is enqueued and is in neither.
C14_Witness ==
    /\ kind = "AppRunnerFrame"
    /\ op.cls = "TaskFrame"
    /\ op.name = "update_state"
    /\ op.changed
    /\ op.enqueued = <<op.pair>>
    /\ mutations /= {}
    /\ deps /= {}
    /\ op.pair \notin mutations \cup deps

\* C15 as stated: update_state and reset_state return whether the stored
\* value changed, in StateAccessFrame and, with the same contract, in
\* AppRunnerFrame and TaskFrame.
C15_ReturnContract ==
    /\ op.cls \in {"StateAccessFrame", "AppRunnerFrame", "TaskFrame"}
    /\ op.name \in Writes
    /\ op.exc = "none"
    => op.ret = Bool(op.changed)

C17_Monotonic ==
    [][ /\ kind \in {"AppRunnerFrame", "UIUpdatesFrame"}
        /\ op'.name /= "__init__"
        => mutations \subseteq mutations' /\ deps \subseteq deps' ]_vars

\* A call has just failed on an AppRunnerFrame that holds mutations and
\* deps.
C17_Witness ==
    /\ op.cls = "AppRunnerFrame"
    /\ op.exc /= "none"
    /\ Cardinality(mutations) >= 1
    /\ Cardinality(deps) >= 2

\* C18: in every state of a UIUpdatesFrame, event_mutations holds exactly
\* the pairs of mutations whose property is an event property.
C18_EventMutations ==
    kind = "UIUpdatesFrame" =>
        /\ event_mutations \subseteq mutations
        /\ event_mutations = {pr \in mutations : IsEventProp(pr)}

\* A UIUpdatesFrame has recorded an event property and a plain one.
C18_Witness ==
    /\ kind = "UIUpdatesFrame"
    /\ event_mutations /= {}
    /\ mutations \ event_mutations /= {}

\* C19: task_frame() on the current AppRunnerFrame returns a new TaskFrame
\* without entering it: the frame is current nowhere, the caller's current
\* frame is still the AppRunnerFrame, and a TaskFrame is current only in
\* the context that entered it.
C19_TaskFrameNotEntered ==
    /\ last.op = "task_frame" =>
          /\ ftype[last.frame] = "TaskFrame"
          /\ status[last.frame] = "new"
          /\ \A d \in Ctx : slot[d] /= last.frame
          /\ slot[last.ctx] /= None
          /\ ftype[slot[last.ctx]] = "AppRunnerFrame"
    /\ \A d \in Ctx :
          slot[d] /= None /\ ftype[slot[d]] = "TaskFrame" =>
              status[slot[d]] /= "new" /\ token[slot[d]].ctx = d

\* The task context has just entered the TaskFrame that the main context
\* made from its AppRunnerFrame, which is still current there.
C19_Witness ==
    /\ last.op = "enter"
    /\ last.ctx = "task"
    /\ ftype[last.frame] = "TaskFrame"
    /\ slot["task"] = last.frame
    /\ slot["main"] /= None
    /\ ftype[slot["main"]] = "AppRunnerFrame"

\* C20: no call on an AppRunnerFrame adds to or removes from
\* prev_frame_mutations: it holds the pairs the caller supplied at
\* construction until the next construction, and a write made during the
\* run is recorded in the frame's own mutations.
C20_PrevUntouched ==
    [][ /\ Step("AppRunnerFrame", "__init__") =>
              prev_frame_mutations' = op'.argdeps
        /\ op'.name /= "__init__" => UNCHANGED prev_frame_mutations
        /\ Step("AppRunnerFrame", "update_state") /\ store' /= store =>
              mutations' = mutations \cup {op'.pair} ]_vars

\* An AppRunnerFrame built on a non-empty set has just changed a property
\* that is not in that set.
C20_Witness ==
    /\ op.cls = "AppRunnerFrame"
    /\ op.name = "update_state"
    /\ op.changed
    /\ prev_frame_mutations /= {}
    /\ op.pair \notin prev_frame_mutations
    /\ op.pair \in mutations

=============================================================================
